---- MODULE Spec2Model ----
(***************************************************************************)
(* Chapter unlock leases of the Rovel server (src/server.js): the          *)
(* chapter_locks collection, the handlers that grant, query, revoke and    *)
(* sweep leases, the gated and the direct chapter routes, the 40 second    *)
(* unlock timer and the start-up connection loop.                          *)
(*                                                                         *)
(* A handler is an async function: every await on a store call is a point  *)
(* where other handlers, timers and the clock may run.  A request is a     *)
(* record in the bag procs; its pc names the store call it is waiting for. *)
(***************************************************************************)
EXTENDS Integers, Sequences, FiniteSets, Bags, TLC

VARIABLES
  now,        \* the wall clock, in ms (Date.now())
  db,         \* the store handle of line 17: "null" or "set"
  srv,        \* startServer: [phase, attempts]
  locks,      \* collection chapter_locks, in natural (insertion) order
  users,      \* collection users: id -> last_seen
  chapters,   \* collection chapters: documents that carry a normalizedTitle
  procs,      \* bag of requests and timer callbacks in flight or answered
  timers,     \* bag of pending setTimeout callbacks of start-chapter-timer
  sweepDue,   \* when the setInterval of line 820 is next due
  sweeps,     \* deleteMany calls of the sweeper in flight: their cut-off dates
  swept,      \* result.deletedCount of the sweeper's last deleteMany
  sweepErrors \* cut-off dates of the sweeper runs whose error the catch has logged

vars == <<now, db, srv, locks, users, chapters, procs, timers, sweepDue, sweeps, swept,
          sweepErrors>>

----------------------------------------------------------------------------
(* Bounds of the model. *)

\* requests in flight or answered and not yet released
MaxReq == 2
\* documents of chapter_locks, counting the upserts in flight
MaxDocs == 2
\* delayed grants pending or running
MaxTimers == 1

(* Program constants. *)

\* 10 * 60 * 1000
LeaseDuration == 600000
\* setTimeout(..., 40000)
TimerDelay == 40000
\* setInterval(..., 60000)
SweepPeriod == 60000
\* const maxAttempts = 5
maxAttempts == 5

----------------------------------------------------------------------------
(* Values of request fields.  A contentId is a JSON number, a string (a    *)
(* sequence of characters), undefined, or NaN once parsed.                 *)

Num(n) == [ty |-> "num", n |-> n, s |-> <<>>]
Str(s) == [ty |-> "str", n |-> 0, s |-> s]
NaN == [ty |-> "nan", n |-> 0, s |-> <<>>]
Undef == [ty |-> "undef", n |-> 0, s |-> <<>>]

\* a userId or chapterId that the request does not carry
Undefined == "undefined"

Digits == {"0", "1", "2", "3", "4", "5", "6", "7", "8", "9"}

DigitVal(c) ==
  CASE c = "0" -> 0 [] c = "1" -> 1 [] c = "2" -> 2 [] c = "3" -> 3
    [] c = "4" -> 4 [] c = "5" -> 5 [] c = "6" -> 6 [] c = "7" -> 7
    [] c = "8" -> 8 [] c = "9" -> 9

\* the longest prefix of s, from index i, made of digits: its value, from acc
RECURSIVE ParseDigits(_, _, _)
ParseDigits(s, i, acc) ==
  IF i > Len(s) \/ s[i] \notin Digits THEN acc
  ELSE ParseDigits(s, i + 1, 10 * acc + DigitVal(s[i]))

RECURSIVE SkipSpaces(_, _)
SkipSpaces(s, i) ==
  IF i <= Len(s) /\ s[i] = " " THEN SkipSpaces(s, i + 1) ELSE i

\* parseInt of a string: leading blanks, an optional sign, then digits
ParseIntStr(s) ==
  LET i == SkipSpaces(s, 1)
      neg == i <= Len(s) /\ s[i] = "-"
      j == IF i <= Len(s) /\ s[i] \in {"-", "+"} THEN i + 1 ELSE i
  IN  IF j > Len(s) \/ s[j] \notin Digits THEN NaN
      ELSE Num(IF neg THEN 0 - ParseDigits(s, j, 0) ELSE ParseDigits(s, j, 0))

\* parseInt(v) of JavaScript, on the values above (numbers here are integers)
parseInt(v) ==
  CASE v.ty = "num" -> v
    [] v.ty = "str" -> ParseIntStr(v.s)
    [] OTHER -> NaN

\* !v of JavaScript for a contentId
FalsyVal(v) ==
  \/ v.ty \in {"undef", "nan"}
  \/ v.ty = "num" /\ v.n = 0
  \/ v.ty = "str" /\ v.s = <<>>

\* !s for a userId or chapterId
FalsyStr(s) == s \in {Undefined, ""}

----------------------------------------------------------------------------
(* Documents and queries of chapter_locks. *)

LockDoc(u, c, ch, ua, ea) ==
  [userId |-> u, contentId |-> c, chapterId |-> ch, unlockedAt |-> ua, expiresAt |-> ea]

\* the filter { userId, contentId, chapterId }
MatchesTriple(d, u, c, ch) ==
  d.userId = u /\ d.contentId = c /\ d.chapterId = ch

Min(S) == CHOOSE x \in S : \A y \in S : x <= y

\* $gte in the place of $gt
NotExpiredAtInclusive(d, date) == d.expiresAt >= date

\* the filter { expiresAt: { $gt: date } }
NotExpiredAt(d, date) == d.expiresAt > date

\* findOne({ userId, contentId, chapterId, expiresAt: { $gt: date } }): the
\* first such document as a one-element sequence, or the empty sequence
FindActiveLock(u, c, ch, date) ==
  LET hit == {i \in 1..Len(locks) :
                MatchesTriple(locks[i], u, c, ch) /\ NotExpiredAt(locks[i], date)}
  IN  IF hit = {} THEN <<>> ELSE <<locks[Min(hit)]>>

\* a find that leaves userId out of its filter
FindLocksOfAnyUser(u, date) ==
  LET Keep(d) == NotExpiredAt(d, date)
  IN  SelectSeq(locks, Keep)

\* find({ userId, expiresAt: { $gt: date } }).toArray()
FindUserLocks(u, date) ==
  LET Keep(d) == d.userId = u /\ NotExpiredAt(d, date)
  IN  SelectSeq(locks, Keep)

\* a $set that leaves expiresAt out
SetLeaseKeepExpiry(d, ua, ea) == [d EXCEPT !.unlockedAt = ua]

\* the $set of an upsert applied to a matched document
SetLease(d, ua, ea) == [d EXCEPT !.unlockedAt = ua, !.expiresAt = ea]

\* $lte in the place of $lt
ExpiredBeforeInclusive(d, date) == d.expiresAt <= date

\* $gt in the place of $lt
ExpiredBeforeReversed(d, date) == d.expiresAt > date

\* the filter { expiresAt: { $lt: date } } of the sweeper
ExpiredBefore(d, date) == d.expiresAt < date

----------------------------------------------------------------------------
(* Requests.  key is the contentId of the request's filter on chapter_locks. *)

Proc(op, pc, u, c, ch, key) ==
  [op |-> op, pc |-> pc, userId |-> u, contentId |-> c, chapterId |-> ch,
   key |-> key, t |-> 0, unlockedAt |-> 0, expiresAt |-> 0, status |-> 0,
   found |-> <<>>, chapter |-> <<>>, count |-> 0]

\* res.status(st).json(...)
Respond(p, st) == [p EXCEPT !.pc = "done", !.status = st]

Running == BagToSet(procs)

Accept(q) == procs' = procs (+) SetToBag({q})

Replace(p, q) == procs' = (procs (-) SetToBag({p})) (+) SetToBag({q})

Drop(p) == procs' = procs (-) SetToBag({p})

GrantOps == {"unlock", "ads", "timercb"}

\* upserts that have not yet reached the store
PendingUpserts ==
  {p \in Running : p.op \in GrantOps /\ p.pc \in {"upsert", "insert"}}

RECURSIVE CopiesOf(_)
CopiesOf(S) ==
  IF S = {} THEN 0
  ELSE LET x == CHOOSE y \in S : TRUE IN CopiesIn(x, procs) + CopiesOf(S \ {x})

\* answered requests wait in procs until the client takes the response
Requests == CopiesOf({p \in Running : p.op # "timercb"})

Callbacks == CopiesOf({p \in Running : p.op = "timercb"})

CanAccept == srv.phase = "listening" /\ Requests < MaxReq

CanGrant == Len(locks) + CopiesOf(PendingUpserts) + BagCardinality(timers) < MaxDocs

----------------------------------------------------------------------------
(* Start-up: startServer and connectToDatabase. *)

\* the state when the module has been loaded, over a store that holds the
\* user records U and the chapters C
InitWith(U, C) ==
  /\ now = 0
  /\ db = "null"
  /\ srv = [phase |-> "connecting", attempts |-> 0]
  /\ locks = <<>>
  /\ users = [u \in U |-> 0]
  /\ chapters = C
  /\ procs = EmptyBag
  /\ timers = EmptyBag
  /\ sweepDue = SweepPeriod
  /\ sweeps = {}
  /\ swept = 0
  /\ sweepErrors = {}

\* connectToDatabase returns true: db is set, then app.listen
ConnectOk ==
  /\ srv.phase = "connecting"
  /\ db' = "set"
  /\ srv' = [phase |-> "listening", attempts |-> 0]
  /\ UNCHANGED <<now, locks, users, chapters, procs, timers, sweepDue, sweeps, swept, sweepErrors>>

\* a retry loop that runs while attempts <= maxAttempts
ConnectFailOneMore ==
  /\ srv.phase = "connecting"
  /\ srv' = IF srv.attempts + 1 <= maxAttempts
            THEN [srv EXCEPT !.attempts = @ + 1]
            ELSE [phase |-> "exited", attempts |-> srv.attempts + 1]
  /\ UNCHANGED <<now, db, locks, users, chapters, procs, timers, sweepDue, sweeps, swept, sweepErrors>>

\* connectToDatabase returns false: one more attempt, or process.exit(1)
ConnectFail ==
  /\ srv.phase = "connecting"
  /\ srv' = IF srv.attempts + 1 < maxAttempts
            THEN [srv EXCEPT !.attempts = @ + 1]
            ELSE [phase |-> "exited", attempts |-> srv.attempts + 1]
  /\ UNCHANGED <<now, db, locks, users, chapters, procs, timers, sweepDue, sweeps, swept, sweepErrors>>

\* the clock moves on, to one of the instants T
Tick(T) ==
  /\ srv.phase # "exited"
  /\ \E t \in T : t > now /\ now' = t
  /\ UNCHANGED <<db, srv, locks, users, chapters, procs, timers, sweepDue, sweeps, swept, sweepErrors>>

\* the client takes a response
Release(p) ==
  /\ p.pc = "done"
  /\ Drop(p)
  /\ UNCHANGED <<now, db, srv, locks, users, chapters, timers, sweepDue, sweeps, swept, sweepErrors>>

----------------------------------------------------------------------------
(* Grant: POST /api/unlock-chapter, POST /ads-complete and the timer callback. *)

\* const expiresAt = new Date(Date.now() + 10 * 60 * 1000)
ExpiryFrom(t) == t + LeaseDuration

\* if (!userId || !contentId || !chapterId)
MissingFields(u, c, ch) == FalsyStr(u) \/ FalsyVal(c) \/ FalsyStr(ch)

\* The handler up to its first await.  Date.now() is read for expiresAt and
\* new Date() again for unlockedAt: the clock may have moved on (to t2, one of
\* T) between the two readings, and nothing else runs between them.
StartGrant(T, op, u, c, ch, key) ==
  /\ CanAccept
  /\ IF db = "null"
     THEN /\ Accept(Respond(Proc(op, "new", u, c, ch, key), 503))
          /\ UNCHANGED now
     ELSE IF MissingFields(u, c, ch)
     THEN /\ Accept(Respond(Proc(op, "new", u, c, ch, key), 400))
          /\ UNCHANGED now
     ELSE /\ CanGrant
          /\ \E t2 \in {now} \cup {t \in T : t > now} :
               /\ now' = t2
               /\ Accept([Proc(op, "upsert", u, c, ch, key)
                            EXCEPT !.t = now, !.expiresAt = ExpiryFrom(now),
                                   !.unlockedAt = t2])
  /\ UNCHANGED <<db, srv, locks, users, chapters, timers, sweepDue, sweeps, swept, sweepErrors>>

\* an unlock whose filter holds contentId as sent
UnlockChapterRawKey(T, u, c, ch) == StartGrant(T, "unlock", u, c, ch, c)

\* POST /api/unlock-chapter: the filter holds parseInt(contentId)
UnlockChapter(T, u, c, ch) == StartGrant(T, "unlock", u, c, ch, parseInt(c))

\* POST /ads-complete: the filter holds manga as sent
AdsComplete(T, u, manga, ch) == StartGrant(T, "ads", u, manga, ch, manga)

\* after the lease write: the last_seen update, or the end of the callback
AfterUpsert(p) ==
  IF p.op = "timercb" THEN Drop(p) ELSE Replace(p, [p EXCEPT !.pc = "lastseen"])

\* an update that takes the first document of the table, whatever its triple
UpsertMatchAnyDoc(p) ==
  /\ p.op \in GrantOps /\ p.pc = "upsert"
  /\ IF locks = <<>>
     THEN /\ Replace(p, [p EXCEPT !.pc = "insert"])
          /\ UNCHANGED locks
     ELSE /\ locks' = [locks EXCEPT ![1] = SetLease(@, p.unlockedAt, p.expiresAt)]
          /\ AfterUpsert(p)
  /\ UNCHANGED <<now, db, srv, users, chapters, timers, sweepDue, sweeps, swept, sweepErrors>>

\* updateOne(filter, $set, { upsert: true }) at the store: a matching document
\* is updated in place; with none, the store goes on to insert
UpsertMatch(p) ==
  /\ p.op \in GrantOps /\ p.pc = "upsert"
  /\ LET hit == {i \in 1..Len(locks) :
                   MatchesTriple(locks[i], p.userId, p.key, p.chapterId)}
     IN  IF hit = {}
         THEN /\ Replace(p, [p EXCEPT !.pc = "insert"])
              /\ UNCHANGED locks
         ELSE /\ locks' = [locks EXCEPT ![Min(hit)] = SetLease(@, p.unlockedAt, p.expiresAt)]
              /\ AfterUpsert(p)
  /\ UNCHANGED <<now, db, srv, users, chapters, timers, sweepDue, sweeps, swept, sweepErrors>>

\* the insert of an upsert that matched nothing: chapter_locks has no unique
\* index on the triple (only the TTL index), so nothing is checked again
UpsertInsert(p) ==
  /\ p.op \in GrantOps /\ p.pc = "insert"
  /\ locks' = Append(locks, LockDoc(p.userId, p.key, p.chapterId, p.unlockedAt, p.expiresAt))
  /\ AfterUpsert(p)
  /\ UNCHANGED <<now, db, srv, users, chapters, timers, sweepDue, sweeps, swept, sweepErrors>>

\* the store call throws: the handler's catch answers 500, the callback's logs
StoreError(p) ==
  /\ p.pc \in {"upsert", "insert", "lastseen", "find", "findall", "deleteall",
             "findlock", "findchapter"}
  /\ IF p.op = "timercb" THEN Drop(p) ELSE Replace(p, Respond(p, 500))
  /\ UNCHANGED <<now, db, srv, locks, users, chapters, timers, sweepDue, sweeps, swept, sweepErrors>>

\* users.updateOne({ id: userId }, { $set: { last_seen } }), then res.json
UpdateLastSeen(p) ==
  /\ p.op \in {"unlock", "ads"} /\ p.pc = "lastseen"
  /\ users' = IF p.userId \in DOMAIN users
              THEN [users EXCEPT ![p.userId] = now] ELSE users
  /\ Replace(p, Respond(p, 200))
  /\ UNCHANGED <<now, db, srv, locks, chapters, timers, sweepDue, sweeps, swept, sweepErrors>>

----------------------------------------------------------------------------
(* IsActive: GET /api/check-unlock/:userId/:contentId/:chapterId. *)

CheckUnlock(u, c, ch) ==
  /\ CanAccept
  /\ IF db = "null"
     THEN Accept(Respond(Proc("check", "new", u, c, ch, parseInt(c)), 503))
     ELSE Accept([Proc("check", "find", u, c, ch, parseInt(c)) EXCEPT !.t = now])
  /\ UNCHANGED <<now, db, srv, locks, users, chapters, timers, sweepDue, sweeps, swept, sweepErrors>>

\* findOne at the store, then res.json({ unlocked: !!lock })
CheckFind(p) ==
  /\ p.op = "check" /\ p.pc = "find"
  /\ Replace(p, [Respond(p, 200) EXCEPT
                   !.found = FindActiveLock(p.userId, p.key, p.chapterId, p.t)])
  /\ UNCHANGED <<now, db, srv, locks, users, chapters, timers, sweepDue, sweeps, swept, sweepErrors>>

\* the unlocked field of the response
Unlocked(p) == p.found # <<>>

----------------------------------------------------------------------------
(* The sweeper: setInterval(..., 60000). *)

\* a tick that sends its deleteMany without looking at db
SweepTickNoGuard ==
  /\ srv.phase # "exited"
  /\ now >= sweepDue
  /\ sweepDue' = now + SweepPeriod
  /\ sweeps' = sweeps \cup {now}
  /\ UNCHANGED <<now, db, srv, locks, users, chapters, procs, timers, swept, sweepErrors>>

\* a tick: with db set, deleteMany({ expiresAt: { $lt: new Date() } }) is sent
SweepTick ==
  /\ srv.phase # "exited"
  /\ now >= sweepDue
  /\ sweepDue' = now + SweepPeriod
  /\ sweeps' = IF db = "set" THEN sweeps \cup {now} ELSE sweeps
  /\ UNCHANGED <<now, db, srv, locks, users, chapters, procs, timers, swept, sweepErrors>>

\* a deleteMany that leaves nothing
AfterSweepAll(seq, date) == <<>>

\* the documents a deleteMany with this cut-off leaves
AfterSweep(seq, date) ==
  LET Keep(d) == ~ExpiredBefore(d, date) IN SelectSeq(seq, Keep)

\* the deleteMany at the store
SweepDelete(date) ==
  /\ date \in sweeps
  /\ locks' = AfterSweep(locks, date)
  /\ swept' = Len(locks) - Len(locks')
  /\ sweeps' = sweeps \ {date}
  /\ UNCHANGED <<now, db, srv, users, chapters, procs, timers, sweepDue, sweepErrors>>

\* a failed deleteMany that ends the process
SweepErrorExits(date) ==
  /\ date \in sweeps
  /\ sweeps' = sweeps \ {date}
  /\ sweepErrors' = sweepErrors \cup {date}
  /\ srv' = [srv EXCEPT !.phase = "exited"]
  /\ UNCHANGED <<now, db, locks, users, chapters, procs, timers, sweepDue, swept>>

\* the deleteMany throws: logged by the catch of the callback
SweepError(date) ==
  /\ date \in sweeps
  /\ sweeps' = sweeps \ {date}
  /\ sweepErrors' = sweepErrors \cup {date}
  /\ UNCHANGED <<now, db, srv, locks, users, chapters, procs, timers, sweepDue, swept>>

\* The store's TTL monitor on the index { expiresAt: 1 } with
\* expireAfterSeconds: 0: at a time of its own it removes the documents whose
\* expiresAt has passed; whether a document expiring at that very instant goes
\* too is the store's choice.
TtlDelete ==
  /\ db = "set"
  /\ \E incl \in BOOLEAN :
       LET Keep(d) == IF incl THEN d.expiresAt > now ELSE d.expiresAt >= now
       IN  locks' = SelectSeq(locks, Keep)
  /\ locks' # locks
  /\ UNCHANGED <<now, db, srv, users, chapters, procs, timers, sweepDue, sweeps, swept, sweepErrors>>

----------------------------------------------------------------------------
(* ListActiveForUser and RevokeAll. *)

\* GET /api/user-locks/:userId
UserLocks(u) ==
  /\ CanAccept
  /\ IF db = "null"
     THEN Accept(Respond(Proc("list", "new", u, Undef, Undefined, Undef), 503))
     ELSE Accept([Proc("list", "findall", u, Undef, Undefined, Undef) EXCEPT !.t = now])
  /\ UNCHANGED <<now, db, srv, locks, users, chapters, timers, sweepDue, sweeps, swept, sweepErrors>>

\* find(...).toArray() at the store, then res.json(locks)
ListFind(p) ==
  /\ p.op = "list" /\ p.pc = "findall"
  /\ Replace(p, [Respond(p, 200) EXCEPT !.found = FindUserLocks(p.userId, p.t)])
  /\ UNCHANGED <<now, db, srv, locks, users, chapters, timers, sweepDue, sweeps, swept, sweepErrors>>

\* POST /api/refresh-chapter-locks
RefreshChapterLocks ==
  /\ CanAccept
  /\ IF db = "null"
     THEN Accept(Respond(Proc("revoke", "new", Undefined, Undef, Undefined, Undef), 503))
     ELSE Accept(Proc("revoke", "deleteall", Undefined, Undef, Undefined, Undef))
  /\ UNCHANGED <<now, db, srv, locks, users, chapters, timers, sweepDue, sweeps, swept, sweepErrors>>

\* a filter that leaves the active leases in place
RevokeExpiredOnly(d) == d.expiresAt < now

\* the filter {} of deleteMany({}): every document
RevokeFilter(d) == TRUE

\* a RevokeAll that also clears the pending timers
RevokeDeleteAndCancel(p) ==
  /\ p.op = "revoke" /\ p.pc = "deleteall"
  /\ locks' = <<>>
  /\ timers' = EmptyBag
  /\ Replace(p, [Respond(p, 200) EXCEPT !.count = Len(locks)])
  /\ UNCHANGED <<now, db, srv, users, chapters, sweepDue, sweeps, swept, sweepErrors>>

\* deleteMany({}) at the store, then res.json({ deletedCount })
RevokeDelete(p) ==
  /\ p.op = "revoke" /\ p.pc = "deleteall"
  /\ LET Keep(d) == ~RevokeFilter(d) IN locks' = SelectSeq(locks, Keep)
  /\ Replace(p, [Respond(p, 200) EXCEPT !.count = Len(locks) - Len(locks')])
  /\ UNCHANGED <<now, db, srv, users, chapters, timers, sweepDue, sweeps, swept, sweepErrors>>

----------------------------------------------------------------------------
(* The chapter routes. *)

ChapterDoc(title, ch) == [normalizedTitle |-> title, chapterId |-> ch]

\* chapters.findOne({ normalizedTitle: manga, chapterId })
FindChapter(manga, ch) ==
  LET hit == {d \in chapters : d.normalizedTitle = manga /\ d.chapterId = ch}
  IN  IF hit = {} THEN <<>> ELSE <<CHOOSE d \in hit : TRUE>>

\* the user of the request taken as sent, with no default
GateUserRaw(user) == user

\* const userId = req.query.user || 'guest'
GateUser(user) == IF FalsyStr(user) THEN "guest" ELSE user

\* GET /chapter/:manga/:chapterId?user=: the Access Gate
Chapter(manga, ch, user) ==
  /\ CanAccept
  /\ IF db = "null"
     THEN Accept(Respond(Proc("gate", "new", user, manga, ch, manga), 503))
     ELSE Accept([Proc("gate", "findlock", GateUser(user), manga, ch, manga) EXCEPT !.t = now])
  /\ UNCHANGED <<now, db, srv, locks, users, chapters, timers, sweepDue, sweeps, swept, sweepErrors>>

\* a gate that goes on to the chapter without the 402 return
GateFindLockNoDeny(p) ==
  /\ p.op = "gate" /\ p.pc = "findlock"
  /\ Replace(p, [p EXCEPT !.pc = "findchapter",
                          !.found = FindActiveLock(p.userId, p.key, p.chapterId, p.t)])
  /\ UNCHANGED <<now, db, srv, locks, users, chapters, timers, sweepDue, sweeps, swept, sweepErrors>>

\* chapter_locks.findOne at the store; if (!unlockRecord) 402
GateFindLock(p) ==
  /\ p.op = "gate" /\ p.pc = "findlock"
  /\ LET lock == FindActiveLock(p.userId, p.key, p.chapterId, p.t)
     IN  IF lock = <<>>
         THEN Replace(p, Respond(p, 402))
         ELSE Replace(p, [p EXCEPT !.pc = "findchapter", !.found = lock])
  /\ UNCHANGED <<now, db, srv, locks, users, chapters, timers, sweepDue, sweeps, swept, sweepErrors>>

\* GET /direct-chapter/:manga/:chapterId: no lock check
DirectChapter(manga, ch) ==
  /\ CanAccept
  /\ IF db = "null"
     THEN Accept(Respond(Proc("direct", "new", Undefined, manga, ch, manga), 503))
     ELSE Accept(Proc("direct", "findchapter", Undefined, manga, ch, manga))
  /\ UNCHANGED <<now, db, srv, locks, users, chapters, timers, sweepDue, sweeps, swept, sweepErrors>>

\* a chapter lookup that serves the chapter only under an active lease
ChapterFindUnderLease(p) ==
  /\ p.op \in {"gate", "direct"} /\ p.pc = "findchapter"
  /\ LET chapter == IF \E i \in 1..Len(locks) : NotExpiredAt(locks[i], now)
                    THEN FindChapter(p.contentId, p.chapterId) ELSE <<>>
     IN  Replace(p, [Respond(p, IF chapter # <<>> THEN 200 ELSE 404)
                       EXCEPT !.chapter = chapter])
  /\ UNCHANGED <<now, db, srv, locks, users, chapters, timers, sweepDue, sweeps, swept, sweepErrors>>

\* chapters.findOne at the store; the chapter as JSON, or 404
ChapterFind(p) ==
  /\ p.op \in {"gate", "direct"} /\ p.pc = "findchapter"
  /\ LET chapter == FindChapter(p.contentId, p.chapterId)
     IN  Replace(p, [Respond(p, IF chapter # <<>> THEN 200 ELSE 404)
                       EXCEPT !.chapter = chapter])
  /\ UNCHANGED <<now, db, srv, locks, users, chapters, timers, sweepDue, sweeps, swept, sweepErrors>>

----------------------------------------------------------------------------
(* ScheduleDelayedGrant: POST /api/start-chapter-timer. *)

CanSchedule == BagCardinality(timers) + Callbacks < MaxTimers

\* the handler: setTimeout(callback, 40000), then res.json; the body's fields
\* are not examined
StartChapterTimer(u, c, ch) ==
  /\ CanAccept
  /\ IF db = "null"
     THEN /\ Accept(Respond(Proc("timer", "new", u, c, ch, Undef), 503))
          /\ UNCHANGED timers
     ELSE /\ CanGrant /\ CanSchedule
          /\ timers' = timers (+) SetToBag({[due |-> now + TimerDelay, userId |-> u,
                                              contentId |-> c, chapterId |-> ch]})
          /\ Accept([Respond(Proc("timer", "new", u, c, ch, Undef), 200) EXCEPT !.t = now])
  /\ UNCHANGED <<now, db, srv, locks, users, chapters, sweepDue, sweeps, swept, sweepErrors>>

\* a timer that runs its callback without waiting
TimerDueAtOnce(tm) == TRUE

\* setTimeout runs the callback once its 40000 ms have passed
TimerDue(tm) == now >= tm.due

\* The timer is due and its callback runs up to its await: the two clock
\* readings of a grant (t2 as in StartGrant), the filter holds parseInt(contentId).
TimerFire(T, tm) ==
  /\ srv.phase # "exited"
  /\ BagIn(tm, timers)
  /\ TimerDue(tm)
  /\ timers' = timers (-) SetToBag({tm})
  /\ \E t2 \in {now} \cup {t \in T : t > now} :
       /\ now' = t2
       /\ Accept([Proc("timercb", "upsert", tm.userId, tm.contentId, tm.chapterId,
                       parseInt(tm.contentId))
                    EXCEPT !.t = now, !.expiresAt = ExpiryFrom(now), !.unlockedAt = t2])
  /\ UNCHANGED <<db, srv, locks, users, chapters, sweepDue, sweeps, swept, sweepErrors>>

----------------------------------------------------------------------------
(* The lease core on one triple: grants, checks, the sweeper and the clock. *)

Str42 == Str(<<"4", "2">>)
Num42 == Num(42)

\* the instants of the lease scenarios
LeaseTimes == {0, 100000, 599999, 600000, 600001}

Init == InitWith({}, {})

Next ==
  \/ ConnectOk
  \/ ConnectFail
  \/ Tick(LeaseTimes)
  \/ \E p \in Running : Release(p)
  \/ UnlockChapter({}, "guest_1", Str42, "3")
  \/ \E p \in Running : UpsertMatch(p)
  \/ \E p \in Running : UpsertInsert(p)
  \/ \E p \in Running : UpdateLastSeen(p)
  \/ CheckUnlock("guest_1", Str42, "3")
  \/ \E p \in Running : CheckFind(p)
  \/ SweepTick
  \/ \E d \in sweeps : SweepDelete(d)

Spec == Init /\ [][Next]_vars

----------------------------------------------------------------------------
(* The Access Gate: ad-completion grants and chapter requests over a store *)
(* that holds chapter 3 of "42" or no chapter.                             *)

GateTimes == {0, 600000, 600001}

InitGate ==
  \E C \in {{}, {ChapterDoc(Str42, "3")}} : InitWith({}, C)

NextGate ==
  \/ ConnectOk
  \/ ConnectFail
  \/ Tick(GateTimes)
  \/ \E p \in Running : Release(p)
  \/ \E u \in {"guest", "u1"} : AdsComplete({}, u, Str42, "3")
  \/ \E p \in Running : UpsertMatch(p)
  \/ \E p \in Running : UpsertInsert(p)
  \/ \E p \in Running : UpdateLastSeen(p)
  \/ \E user \in {Undefined, "u1"} : Chapter(Str42, "3", user)
  \/ \E p \in Running : GateFindLock(p)
  \/ \E p \in Running : ChapterFind(p)

SpecGate == InitGate /\ [][NextGate]_vars

----------------------------------------------------------------------------
(* Administration: grants for two users, RevokeAll, checks and the sweeper. *)

AdminTimes == {0, 600000, 600001}

NextAdmin ==
  \/ ConnectOk
  \/ ConnectFail
  \/ Tick(AdminTimes)
  \/ \E p \in Running : Release(p)
  \/ \E u \in {"guest_1", "u1"} : UnlockChapter({}, u, Num42, "3")
  \/ \E p \in Running : UpsertMatch(p)
  \/ \E p \in Running : UpsertInsert(p)
  \/ \E p \in Running : UpdateLastSeen(p)
  \/ RefreshChapterLocks
  \/ \E p \in Running : RevokeDelete(p)
  \/ CheckUnlock("guest_1", Str42, "3")
  \/ \E p \in Running : CheckFind(p)
  \/ SweepTick
  \/ \E d \in sweeps : SweepDelete(d)

SpecAdmin == Init /\ [][NextAdmin]_vars

----------------------------------------------------------------------------
(* Delayed grants: the 40 second timer, with complete and incomplete bodies, *)
(* and the two grant routes with a field missing.                           *)

TimerTimes == {0, 39999, 40000, 40001}

NextTimer ==
  \/ ConnectOk
  \/ ConnectFail
  \/ Tick(TimerTimes)
  \/ \E p \in Running : Release(p)
  \/ StartChapterTimer("guest_1", Str42, "3")
  \/ StartChapterTimer(Undefined, Undef, Undefined)
  \/ \E tm \in BagToSet(timers) : TimerFire({}, tm)
  \/ UnlockChapter({}, "guest_1", Undef, "3")
  \/ AdsComplete({}, Undefined, Str42, "3")
  \/ \E p \in Running : UpsertMatch(p)
  \/ \E p \in Running : UpsertInsert(p)
  \/ CheckUnlock("guest_1", Str42, "3")
  \/ \E p \in Running : CheckFind(p)

SpecTimer == Init /\ [][NextTimer]_vars

----------------------------------------------------------------------------
(* Sweeper convergence: grants, listings and the sweeper, with the clock, the *)
(* interval timer and the store's answers to the sweeper scheduled fairly.   *)

LiveTimes == {0, 600001, 700000}

NextLive ==
  \/ ConnectOk
  \/ ConnectFail
  \/ Tick(LiveTimes)
  \/ \E p \in Running : Release(p)
  \/ UnlockChapter({}, "guest_1", Str42, "3")
  \/ \E p \in Running : UpsertMatch(p)
  \/ \E p \in Running : UpsertInsert(p)
  \/ \E p \in Running : UpdateLastSeen(p)
  \/ UserLocks("guest_1")
  \/ \E p \in Running : ListFind(p)
  \/ SweepTick
  \/ \E d \in sweeps : SweepDelete(d)

SpecLive ==
  /\ Init /\ [][NextLive]_vars
  /\ WF_vars(Tick(LiveTimes))
  /\ WF_vars(SweepTick)
  /\ WF_vars(\E d \in sweeps : SweepDelete(d))

----------------------------------------------------------------------------
(* Store failures: the two grant routes and checks, with any awaited store  *)
(* call allowed to throw.                                                   *)

FailTimes == {0, 100000}

\* the users collection holds the record of guest_1
InitFail == InitWith({"guest_1"}, {})

NextFail ==
  \/ ConnectOk
  \/ ConnectFail
  \/ Tick(FailTimes)
  \/ \E p \in Running : Release(p)
  \/ UnlockChapter({}, "guest_1", Str42, "3")
  \/ AdsComplete({}, "guest_1", Str42, "3")
  \/ \E p \in Running : UpsertMatch(p)
  \/ \E p \in Running : UpsertInsert(p)
  \/ \E p \in Running : UpdateLastSeen(p)
  \/ \E p \in Running : StoreError(p)
  \/ CheckUnlock("guest_1", Str42, "3")
  \/ \E p \in Running : CheckFind(p)

SpecFail == InitFail /\ [][NextFail]_vars

----------------------------------------------------------------------------
(* The whole server: the routes of the lease manager (the two grant routes  *)
(* share StartGrant; unlock-chapter stands for both), the timer, the        *)
(* sweeper and the start-up loop.                                           *)

ServerTimes == {0, 60000}

NextServer ==
  \/ ConnectOk
  \/ ConnectFail
  \/ Tick(ServerTimes)
  \/ \E p \in Running : Release(p)
  \/ UnlockChapter({}, "guest_1", Str42, "3")
  \/ \E p \in Running : UpsertMatch(p)
  \/ \E p \in Running : UpsertInsert(p)
  \/ \E p \in Running : UpdateLastSeen(p)
  \/ CheckUnlock("guest_1", Str42, "3")
  \/ \E p \in Running : CheckFind(p)
  \/ UserLocks("guest_1")
  \/ \E p \in Running : ListFind(p)
  \/ RefreshChapterLocks
  \/ \E p \in Running : RevokeDelete(p)
  \/ Chapter(Str42, "3", "guest_1")
  \/ \E p \in Running : GateFindLock(p)
  \/ DirectChapter(Str42, "3")
  \/ \E p \in Running : ChapterFind(p)
  \/ StartChapterTimer("guest_1", Str42, "3")
  \/ \E tm \in BagToSet(timers) : TimerFire({}, tm)
  \/ SweepTick
  \/ \E d \in sweeps : SweepDelete(d)

SpecServer == Init /\ [][NextServer]_vars

----------------------------------------------------------------------------
(* Listings: grants for two users and the listing of one of them.          *)

ListTimes == {0, 600000, 600001}

NextList ==
  \/ ConnectOk
  \/ ConnectFail
  \/ Tick(ListTimes)
  \/ \E p \in Running : Release(p)
  \/ \E u \in {"guest_1", "u1"} : UnlockChapter({}, u, Str42, "3")
  \/ \E p \in Running : UpsertMatch(p)
  \/ \E p \in Running : UpsertInsert(p)
  \/ \E p \in Running : UpdateLastSeen(p)
  \/ UserLocks("guest_1")
  \/ \E p \in Running : ListFind(p)

SpecList == Init /\ [][NextList]_vars

----------------------------------------------------------------------------
(* The unchecked route beside ad-completion grants, over a store that holds *)
(* chapter 3 of "42" or no chapter.                                         *)

DirectTimes == {0, 600001}

NextDirect ==
  \/ ConnectOk
  \/ ConnectFail
  \/ Tick(DirectTimes)
  \/ \E p \in Running : Release(p)
  \/ AdsComplete({}, "guest", Str42, "3")
  \/ \E p \in Running : UpsertMatch(p)
  \/ \E p \in Running : UpsertInsert(p)
  \/ \E p \in Running : UpdateLastSeen(p)
  \/ DirectChapter(Str42, "3")
  \/ \E p \in Running : ChapterFind(p)
  \/ Chapter(Str42, "3", Undefined)
  \/ \E p \in Running : GateFindLock(p)

SpecDirect == InitGate /\ [][NextDirect]_vars

----------------------------------------------------------------------------
(* The two key spaces: the three grant flows for "guest" on content "42",   *)
(* the check and the gate, over a store that holds chapter 3 of "42".       *)

KeyTimes == {0, 40000}

InitKeys == InitWith({}, {ChapterDoc(Str42, "3")})

NextKeys ==
  \/ ConnectOk
  \/ ConnectFail
  \/ Tick(KeyTimes)
  \/ \E p \in Running : Release(p)
  \/ UnlockChapter({}, "guest", Str42, "3")
  \/ AdsComplete({}, "guest", Str42, "3")
  \/ StartChapterTimer("guest", Str42, "3")
  \/ \E tm \in BagToSet(timers) : TimerFire({}, tm)
  \/ \E p \in Running : UpsertMatch(p)
  \/ \E p \in Running : UpsertInsert(p)
  \/ \E p \in Running : UpdateLastSeen(p)
  \/ CheckUnlock("guest", Str42, "3")
  \/ \E p \in Running : CheckFind(p)
  \/ Chapter(Str42, "3", Undefined)
  \/ \E p \in Running : GateFindLock(p)
  \/ \E p \in Running : ChapterFind(p)

SpecKeys == InitKeys /\ [][NextKeys]_vars

----------------------------------------------------------------------------
(* Delayed grants beside RevokeAll: the timer, its callback, manual unlock, *)
(* RevokeAll and checks.  The clock, the timers and the store's answers to  *)
(* the callbacks are scheduled fairly: the process stays alive and the      *)
(* store answers.                                                           *)

RevokeTimes == {0, 40000}

NextRevoke ==
  \/ ConnectOk
  \/ ConnectFail
  \/ Tick(RevokeTimes)
  \/ \E p \in Running : Release(p)
  \/ StartChapterTimer("guest_1", Str42, "3")
  \/ \E tm \in BagToSet(timers) : TimerFire({}, tm)
  \/ UnlockChapter({}, "guest_1", Str42, "3")
  \/ \E p \in Running : UpsertMatch(p)
  \/ \E p \in Running : UpsertInsert(p)
  \/ \E p \in Running : UpdateLastSeen(p)
  \/ RefreshChapterLocks
  \/ \E p \in Running : RevokeDelete(p)
  \/ CheckUnlock("guest_1", Str42, "3")
  \/ \E p \in Running : CheckFind(p)

SpecRevoke ==
  /\ Init /\ [][NextRevoke]_vars
  /\ WF_vars(Tick(RevokeTimes))
  /\ WF_vars(\E tm \in BagToSet(timers) : TimerFire({}, tm))
  /\ WF_vars(\E p \in Running : p.op = "timercb" /\ UpsertMatch(p))
  /\ WF_vars(\E p \in Running : p.op = "timercb" /\ UpsertInsert(p))

----------------------------------------------------------------------------
(* The two clock readings of a grant: the three grant flows with the clock  *)
(* allowed to move on between Date.now() and new Date().                    *)

ClockTimes == {0, 1, 40000, 40001}

\* between the two readings of one grant the clock moves on by a millisecond
\* at most
NextMs == {now + 1} \cap ClockTimes

NextClock ==
  \/ ConnectOk
  \/ ConnectFail
  \/ Tick(ClockTimes)
  \/ \E p \in Running : Release(p)
  \/ UnlockChapter(NextMs, "guest_1", Str42, "3")
  \/ AdsComplete(NextMs, "guest_1", Str42, "3")
  \/ StartChapterTimer("guest_1", Str42, "3")
  \/ \E tm \in BagToSet(timers) : TimerFire(NextMs, tm)
  \/ \E p \in Running : UpsertMatch(p)
  \/ \E p \in Running : UpsertInsert(p)
  \/ \E p \in Running : UpdateLastSeen(p)

SpecClock == Init /\ [][NextClock]_vars

----------------------------------------------------------------------------
(* Reads beside removal: grants under both keys, checks, the sweeper and    *)
(* the store's TTL deletion.                                                *)

ReadTimes == {0, 600000, 600001}

NextReads ==
  \/ ConnectOk
  \/ ConnectFail
  \/ Tick(ReadTimes)
  \/ \E p \in Running : Release(p)
  \/ UnlockChapter({}, "guest", Str42, "3")
  \/ AdsComplete({}, "guest", Str42, "3")
  \/ \E p \in Running : UpsertMatch(p)
  \/ \E p \in Running : UpsertInsert(p)
  \/ \E p \in Running : UpdateLastSeen(p)
  \/ CheckUnlock("guest", Str42, "3")
  \/ \E p \in Running : CheckFind(p)
  \/ SweepTick
  \/ \E d \in sweeps : SweepDelete(d)
  \/ TtlDelete

SpecReads == Init /\ [][NextReads]_vars

----------------------------------------------------------------------------
(* Last-seen: the three grant flows for guest_1, who has a user record, and *)
(* manual unlock for u1, who has none.                                      *)

SeenTimes == {0, 40000}

NextSeen ==
  \/ ConnectOk
  \/ ConnectFail
  \/ Tick(SeenTimes)
  \/ \E p \in Running : Release(p)
  \/ \E u \in {"guest_1", "u1"} : UnlockChapter({}, u, Str42, "3")
  \/ AdsComplete({}, "guest_1", Str42, "3")
  \/ StartChapterTimer("guest_1", Str42, "3")
  \/ \E tm \in BagToSet(timers) : TimerFire({}, tm)
  \/ \E p \in Running : UpsertMatch(p)
  \/ \E p \in Running : UpsertInsert(p)
  \/ \E p \in Running : UpdateLastSeen(p)

SpecSeen == InitFail /\ [][NextSeen]_vars

----------------------------------------------------------------------------
(* The frame of the lease table: grants for two users, every read route,    *)
(* RevokeAll, the sweeper and the store's TTL deletion.                     *)

FrameTimes == {0, 600001}

NextFrame ==
  \/ ConnectOk
  \/ ConnectFail
  \/ Tick(FrameTimes)
  \/ \E p \in Running : Release(p)
  \/ \E u \in {"guest_1", "u1"} : UnlockChapter({}, u, Str42, "3")
  \/ \E p \in Running : UpsertMatch(p)
  \/ \E p \in Running : UpsertInsert(p)
  \/ \E p \in Running : UpdateLastSeen(p)
  \/ CheckUnlock("guest_1", Str42, "3")
  \/ \E p \in Running : CheckFind(p)
  \/ UserLocks("guest_1")
  \/ \E p \in Running : ListFind(p)
  \/ Chapter(Str42, "3", "guest_1")
  \/ \E p \in Running : GateFindLock(p)
  \/ DirectChapter(Str42, "3")
  \/ \E p \in Running : ChapterFind(p)
  \/ RefreshChapterLocks
  \/ \E p \in Running : RevokeDelete(p)
  \/ SweepTick
  \/ \E d \in sweeps : SweepDelete(d)
  \/ TtlDelete

SpecFrame == Init /\ [][NextFrame]_vars

----------------------------------------------------------------------------
(* The sweeper with a store that may fail its deleteMany: grants and checks *)
(* in flight, the interval's ticks scheduled fairly.                        *)

SweepTimes == {0, 600001, 700000}

NextSweep ==
  \/ ConnectOk
  \/ ConnectFail
  \/ Tick(SweepTimes)
  \/ \E p \in Running : Release(p)
  \/ UnlockChapter({}, "guest_1", Str42, "3")
  \/ \E p \in Running : UpsertMatch(p)
  \/ \E p \in Running : UpsertInsert(p)
  \/ \E p \in Running : UpdateLastSeen(p)
  \/ CheckUnlock("guest_1", Str42, "3")
  \/ \E p \in Running : CheckFind(p)
  \/ SweepTick
  \/ \E d \in sweeps : SweepDelete(d)
  \/ \E d \in sweeps : SweepError(d)

SpecSweep ==
  /\ Init /\ [][NextSweep]_vars
  /\ WF_vars(Tick(SweepTimes))
  /\ WF_vars(SweepTick)

----------------------------------------------------------------------------
(* Properties of the lease core (checked under Spec). *)

\* the documents of a lease table that hold the triple
LeasesOf(seq, u, c, ch) == {i \in 1..Len(seq) : MatchesTriple(seq[i], u, c, ch)}

\* what IsActive answers when it is asked and served at this instant
ActiveNow(u, c, ch) ==
  \E i \in LeasesOf(locks, u, c, ch) : now < locks[i].expiresAt

\* a grant that has been answered with success
Granted(p) == p.op \in {"unlock", "ads"} /\ p.pc = "done" /\ p.status = 200

\* C1: once a Grant for a triple has completed, IsActive for the triple is true
\* at every instant strictly before the expiresAt that Grant computed, whatever
\* sweeper runs and further grants for the triple are interleaved.
GrantedStaysActive ==
  \A p \in Running :
    Granted(p) /\ now < p.expiresAt => ActiveNow(p.userId, p.key, p.chapterId)

\* C2: the lease table holds at most one lease per (userId, contentId, chapterId).
AtMostOneLeasePerTriple ==
  \A i, j \in 1..Len(locks) :
    MatchesTriple(locks[i], locks[j].userId, locks[j].contentId, locks[j].chapterId)
      => i = j

\* p's lease write reaches the store while no other grant for its triple is in
\* flight: p is the later of two sequential calls
WritesAlone(p) ==
  /\ p.op \in GrantOps /\ p.pc \in {"upsert", "insert"}
  /\ \A q \in PendingUpserts :
       q.userId = p.userId /\ q.key = p.key /\ q.chapterId = p.chapterId => q = p
  /\ CopiesIn(p, procs) = 1
  /\ locks' # locks

\* C3: when the second of two sequential Grant calls for a triple, made at a
\* later time than the first, is applied, the table holds exactly one lease for
\* the triple, and its expiresAt is the second call's time plus 600000 ms.
SequentialRenewal ==
  [][\A p \in Running :
       LET old == LeasesOf(locks, p.userId, p.key, p.chapterId)
           new == LeasesOf(locks', p.userId, p.key, p.chapterId)
       IN  (/\ WritesAlone(p)
            /\ Cardinality(old) = 1
            /\ \A i \in old : locks[i].unlockedAt < p.t
            /\ UpsertMatch(p))
           => /\ Cardinality(new) = 1
              /\ \A i \in new : /\ locks'[i].expiresAt = p.t + LeaseDuration
                                /\ \A j \in old : locks'[i].expiresAt > locks[j].expiresAt
     ]_vars

\* Grant at t=0 and again at t=100000: one lease, expiring at t=700000
SequentialRenewalReached ==
  /\ Len(locks) = 1
  /\ locks[1].expiresAt = 700000
  /\ \E p \in Running : Granted(p) /\ p.t = 0
  /\ \E p \in Running : p.op = "unlock" /\ p.pc = "lastseen" /\ p.t = 100000

\* C4: a check that reports a lease active was made strictly before that
\* lease's expiresAt, which is at most its grant time plus 600000 ms: no check
\* made at or after grantedAt + D reports the lease active, swept or not.
NeverActiveAtOrAfterExpiry ==
  \A p \in Running :
    p.op = "check" /\ p.pc = "done" /\ p.status = 200 /\ Unlocked(p)
      => /\ p.t < p.found[1].expiresAt
         /\ p.found[1].expiresAt <= p.found[1].unlockedAt + LeaseDuration
         /\ MatchesTriple(p.found[1], p.userId, parseInt(p.contentId), p.chapterId)

\* a check made at the very instant of expiry answers false while the expired
\* lease is still in the table
ExpiredReportedInactive ==
  \E p \in Running :
    /\ p.op = "check" /\ p.pc = "done" /\ p.status = 200 /\ ~Unlocked(p)
    /\ \E i \in LeasesOf(locks, p.userId, p.key, p.chapterId) :
         /\ locks[i].unlockedAt = 0 /\ locks[i].expiresAt = 600000
         /\ p.t = locks[i].expiresAt

\* C7: a sweeper run removes exactly the leases whose expiresAt is strictly
\* before the time of the run (its cut-off date), which is never in the future:
\* a lease with now <= expiresAt, renewed in time or not, survives.
SweepRemovesOnlyExpired ==
  [][\A date \in sweeps :
       date \notin sweeps'
         => LET Survives(d) == d.expiresAt >= date
            IN  /\ locks' = SelectSeq(locks, Survives)
                /\ swept' = Len(locks) - Len(locks')
                /\ date <= now
                /\ \A i \in 1..Len(locks) :
                     now <= locks[i].expiresAt => \E j \in 1..Len(locks') : locks'[j] = locks[i]
     ]_vars

\* a run has removed an expired lease and left the renewed one
SweepRemovedAndKept ==
  /\ swept = 1
  /\ sweeps = {}
  /\ Len(locks) = 1
  /\ locks[1].unlockedAt >= 600000

----------------------------------------------------------------------------
(* Properties of the Access Gate (checked under SpecGate). *)

\* C5: with the store answering, the gate has three outcomes.  With no active
\* lease of the request's user for (manga, chapter) at the date of its query it
\* answers 402 and no chapter, whether or not the chapter exists; with an
\* active lease it answers the chapter (200) when the chapter exists and 404
\* when it does not.
GateOutcomes ==
  [][\A p \in Running :
       LET active == \E i \in LeasesOf(locks, p.userId, p.contentId, p.chapterId) :
                       p.t < locks[i].expiresAt
           exists == ChapterDoc(p.contentId, p.chapterId) \in chapters
           after == BagToSet(procs') \ (IF CopiesIn(p, procs) > 1 THEN {} ELSE {p})
       IN  /\ (p.op = "gate" /\ p.pc = "findlock" /\ GateFindLock(p) /\ ~active)
                => \E q \in after : q = Respond(p, 402) /\ q.chapter = <<>>
           /\ (p.op = "gate" /\ p.pc = "findlock" /\ GateFindLock(p) /\ active)
                => \E q \in after : q.op = "gate" /\ q.pc = "findchapter" /\ q.found # <<>>
           /\ (p.op = "gate" /\ p.pc = "findchapter" /\ ChapterFind(p) /\ exists)
                => \E q \in after :
                     /\ q.pc = "done" /\ q.status = 200
                     /\ q.chapter = <<ChapterDoc(p.contentId, p.chapterId)>>
           /\ (p.op = "gate" /\ p.pc = "findchapter" /\ ChapterFind(p) /\ ~exists)
                => \E q \in after : q.pc = "done" /\ q.status = 404 /\ q.chapter = <<>>
     ]_vars

\* one request has been denied and another served the chapter
GateDeniedAndServed ==
  /\ \E p \in Running : p.op = "gate" /\ p.pc = "done" /\ p.status = 402
  /\ \E p \in Running : p.op = "gate" /\ p.pc = "done" /\ p.status = 200 /\ p.chapter # <<>>

----------------------------------------------------------------------------
(* Properties of RevokeAll (checked under SpecAdmin). *)

\* C6: RevokeAll deletes every lease, active or expired, and returns how many it
\* removed; when it completes the table is empty and IsActive is false for
\* every triple that had been granted.
RevokeAllEmpties ==
  [][\A p \in Running :
       (p.op = "revoke" /\ p.pc = "deleteall" /\ RevokeDelete(p))
         => /\ locks' = <<>>
            /\ \E q \in BagToSet(procs') :
                 q.op = "revoke" /\ q.pc = "done" /\ q.status = 200 /\ q.count = Len(locks)
            /\ \A g \in Running :
                 Granted(g) => \A i \in LeasesOf(locks', g.userId, g.key, g.chapterId) :
                                 ~(now' < locks'[i].expiresAt)
     ]_vars

\* a RevokeAll has removed two leases, one of them granted and still active
RevokedActiveLease ==
  /\ locks = <<>>
  /\ \E q \in Running : q.op = "revoke" /\ q.pc = "done" /\ q.count = 2
  /\ \E g \in Running : Granted(g) /\ now < g.expiresAt

----------------------------------------------------------------------------
(* Properties of the sweeper's convergence (checked under SpecLive). *)

\* an expired lease is still in the table
ExpiredHeld == \E i \in 1..Len(locks) : locks[i].expiresAt < now

\* ListActiveForUser answers no lease whose expiresAt is at or before its date
ListsOnlyActive ==
  \A p \in Running :
    p.op = "list" /\ p.pc = "done" /\ p.status = 200
      => \A i \in 1..Len(p.found) :
           p.found[i].userId = p.userId /\ p.t < p.found[i].expiresAt

\* a tick of the sweeper's interval is still to come among the instants the
\* clock takes (the interval never stops; the clock's instants do)
SweepAhead == \E t \in LiveTimes : t >= sweepDue

\* C8: once a lease's expiresAt has passed it is in no answer of
\* ListActiveForUser, and with the sweeper's ticks and deletes scheduled fairly
\* and a tick still to come, every expired lease is in the end out of the table
\* (removed, or renewed).
SweeperConvergence ==
  [](ListsOnlyActive) /\ ((ExpiredHeld /\ SweepAhead) ~> ~ExpiredHeld)

\* the lease granted at 0 has expired, a listing made then is empty, and a
\* sweeper run has removed the lease
ExpiredLeaseSwept ==
  /\ swept = 1
  /\ locks = <<>>
  /\ \E p \in Running : p.op = "list" /\ p.pc = "done" /\ p.t = 600001 /\ p.found = <<>>

----------------------------------------------------------------------------
(* Properties of delayed grants and of input checks (checked under SpecTimer). *)

\* a request to start the timer that has been answered with success
Scheduled(p) == p.op = "timer" /\ p.pc = "done" /\ p.status = 200

\* the timer such a request has set
TimerOf(p) ==
  [due |-> p.t + TimerDelay, userId |-> p.userId, contentId |-> p.contentId,
   chapterId |-> p.chapterId]

\* C9 as stated: after ScheduleDelayedGrant(u,c,ch,40000) at t, with no other
\* grant for the triple, IsActive(u,c,ch) is false before t+40000 and true from
\* t+40001 on.
DelayedGrantActiveAt40001 ==
  \A p \in Running :
    Scheduled(p) /\ ~MissingFields(p.userId, p.contentId, p.chapterId)
      => /\ now < p.t + TimerDelay => ~ActiveNow(p.userId, parseInt(p.contentId), p.chapterId)
         /\ now > p.t + TimerDelay => ActiveNow(p.userId, parseInt(p.contentId), p.chapterId)

\* C9 as amended: the request is answered with the timer set and no lease
\* written; as long as the 40000 ms have not passed the timer is still pending,
\* and no lease exists before 40000 ms; a lease a callback writes carries a
\* grant time of at least 40000 ms.
DelayedGrantNotBeforeDelay ==
  /\ \A p \in Running :
       Scheduled(p) /\ now < p.t + TimerDelay => BagIn(TimerOf(p), timers)
  /\ now < TimerDelay => locks = <<>>
  /\ \A p \in Running : p.op = "timercb" => p.t >= TimerDelay
  /\ \A i \in 1..Len(locks) :
       /\ locks[i].unlockedAt >= TimerDelay
       /\ locks[i].expiresAt >= TimerDelay + LeaseDuration

\* the delay has passed, the callback's upsert has been applied and the lease
\* is active, with the request answered at t=0
DelayedGrantApplied ==
  /\ \E p \in Running : Scheduled(p) /\ p.t = 0 /\ p.userId = "guest_1"
  /\ ActiveNow("guest_1", Num42, "3")
  /\ timers = EmptyBag

\* C10: every grant route answers 400 to a request that lacks userId, contentId
\* or chapterId, and then no lease is written and no delayed grant is set.
MissingFieldsRejected ==
  /\ \A p \in Running :
       /\ p.op \in {"unlock", "ads", "timer"}
       /\ p.pc = "done"
       /\ MissingFields(p.userId, p.contentId, p.chapterId)
       => p.status = 400
  /\ \A tm \in BagToSet(timers) : ~MissingFields(tm.userId, tm.contentId, tm.chapterId)
  /\ \A i \in 1..Len(locks) :
       ~MissingFields(locks[i].userId, locks[i].contentId, locks[i].chapterId)

----------------------------------------------------------------------------
(* Properties of store failures (checked under SpecFail). *)

\* C11: when the last_seen update of a grant fails after its lease write has
\* succeeded, the grant is still answered with success (200).
LastSeenFailureSwallowed ==
  [][\A p \in Running :
       (p.op \in {"unlock", "ads"} /\ p.pc = "lastseen" /\ StoreError(p))
         => \E q \in BagToSet(procs') : q = Respond(p, 200)
     ]_vars

----------------------------------------------------------------------------
(* Properties of the unconnected store and of the unchecked route (checked  *)
(* under SpecServer).                                                       *)

\* the requests a step has accepted or moved on
Stepped == {q \in BagToSet(procs') : CopiesIn(q, procs') > CopiesIn(q, procs)}

----------------------------------------------------------------------------
(* Properties of ListActiveForUser (checked under SpecList). *)

\* C13: the answer of ListActiveForUser(u) holds exactly the documents of the
\* table, as it is when the query is served, with userId = u and expiresAt
\* after the date of the query: each of them once, and nothing else.
ListIsExact ==
  [][\A p \in Running :
       (p.op = "list" /\ p.pc = "findall" /\ ListFind(p))
         => LET mine == {i \in 1..Len(locks) :
                          locks[i].userId = p.userId /\ locks[i].expiresAt > p.t}
            IN  \E q \in Stepped :
                  /\ q.op = "list" /\ q.pc = "done" /\ q.status = 200
                  /\ Len(q.found) = Cardinality(mine)
                  /\ \A i \in mine : \E k \in 1..Len(q.found) : q.found[k] = locks[i]
                  /\ \A k \in 1..Len(q.found) : \E i \in mine : q.found[k] = locks[i]
     ]_vars

\* a listing for guest_1 made at 600000 holds the one lease of guest_1, granted
\* at 600000; the active lease of u1 is in the table and not in the answer
ListedOwnActiveOnly ==
  \E p \in Running :
    /\ p.op = "list" /\ p.pc = "done" /\ p.userId = "guest_1" /\ p.t = 600000
    /\ Len(p.found) = 1 /\ p.found[1].expiresAt = 1200000
    /\ \E i \in 1..Len(locks) : locks[i].userId = "u1" /\ locks[i].expiresAt > p.t

----------------------------------------------------------------------------
(* The gate and the leases of other users (checked under SpecGate). *)

\* the documents of a table that belong to user u
LeasesOfUser(seq, u) == LET Keep(d) == d.userId = u IN SelectSeq(seq, Keep)

\* whether a table holds a lease that opens the gate for request p
GateOpensOn(seq, p) ==
  \E i \in 1..Len(seq) :
    MatchesTriple(seq[i], p.userId, p.key, p.chapterId) /\ p.t < seq[i].expiresAt

\* tables that agree with the present one on the leases of u: the leases of
\* the other users dropped, or an active lease of another user put before or
\* after
TablesAgreeingOn(u, p) ==
  LET foreign == {LockDoc(v, p.key, p.chapterId, p.t, p.t + LeaseDuration) :
                    v \in {"guest", "u1", "u2"} \ {u}}
  IN  {LeasesOfUser(locks, u)}
        \cup {Append(locks, d) : d \in foreign}
        \cup {<<d>> \o locks : d \in foreign}

\* C14: the gate denies a request exactly when the table holds no active
\* lease of the request's user for the content and chapter, and the answer is
\* the same on every table that agrees on that user's leases; a request sent
\* without a user is evaluated as the user "guest".
GateSeesOwnLeasesOnly ==
  [][/\ \A p \in Running :
          (p.op = "gate" /\ p.pc = "findlock" /\ GateFindLock(p))
            => /\ (\E q \in Stepped : q.pc = "done" /\ q.status = 402)
                    <=> ~GateOpensOn(locks, p)
               /\ (\E q \in Stepped : q.pc = "findchapter")
                    <=> GateOpensOn(locks, p)
               /\ \A seq \in TablesAgreeingOn(p.userId, p) :
                    /\ LeasesOfUser(seq, p.userId) = LeasesOfUser(locks, p.userId)
                    /\ GateOpensOn(seq, p) <=> GateOpensOn(locks, p)
     /\ \A user \in {Undefined, "u1"} :
          Chapter(Str42, "3", user)
            => \E q \in Stepped :
                 /\ q.op = "gate" /\ q.pc = "findlock"
                 /\ q.userId = IF user = Undefined THEN "guest" ELSE user
     ]_vars

\* a request without a user has been denied while u1 held an active lease for
\* the content and chapter, and another request without a user has been let
\* through on a lease of "guest"
GuestDeniedBesideOtherLease ==
  /\ \E p \in Running :
       /\ p.op = "gate" /\ p.pc = "done" /\ p.status = 402 /\ p.userId = "guest"
       /\ \E i \in 1..Len(locks) :
            /\ MatchesTriple(locks[i], "u1", p.key, p.chapterId)
            /\ locks[i].unlockedAt <= p.t /\ p.t < locks[i].expiresAt
  /\ \E p \in Running :
       /\ p.op = "gate" /\ p.userId = "guest" /\ p.found # <<>>
       /\ p.found[1].userId = "guest"

----------------------------------------------------------------------------
(* Properties of the unchecked route (checked under SpecDirect). *)

\* C15: the unchecked route answers the chapter (200) when the chapters
\* collection holds it and 404 when it does not, whatever the lease table
\* holds; its steps leave the lease table as it is and take nothing from it.
DirectIgnoresLeases ==
  [][/\ DirectChapter(Str42, "3")
          => /\ locks' = locks
             /\ \E q \in Stepped : q.op = "direct" /\ q.pc = "findchapter" /\ q.found = <<>>
     /\ \A p \in Running :
          (p.op = "direct" /\ p.pc = "findchapter" /\ ChapterFind(p))
            => LET exists == ChapterDoc(p.contentId, p.chapterId) \in chapters
               IN  /\ locks' = locks
                   /\ \E q \in Stepped :
                        /\ q.op = "direct" /\ q.pc = "done" /\ q.found = <<>>
                        /\ q.status = IF exists THEN 200 ELSE 404
                        /\ q.chapter = IF exists
                                       THEN <<ChapterDoc(p.contentId, p.chapterId)>>
                                       ELSE <<>>
     ]_vars

\* the unchecked route has served the chapter while the only lease was expired
\* and the gate, asked then, had denied it
DirectServedWithoutLease ==
  /\ Len(locks) = 1 /\ locks[1].expiresAt < now
  /\ \E p \in Running : p.op = "direct" /\ p.pc = "done" /\ p.status = 200 /\ p.chapter # <<>>
  /\ \E p \in Running : p.op = "gate" /\ p.pc = "done" /\ p.status = 402 /\ p.t = now

----------------------------------------------------------------------------
(* Concurrent grants on one triple (checked under Spec). *)

\* C16: the stored expiresAt of a lease never decreases as the result of a
\* Grant: a grant that read the clock earlier does not overwrite the expiresAt
\* written by a grant that read the clock later.
ExpiryNeverDecreases ==
  [][\A p \in Running :
       (p.op \in GrantOps /\ p.pc = "upsert" /\ UpsertMatch(p))
         => /\ Len(locks') = Len(locks)
            /\ \A i \in 1..Len(locks) : locks'[i].expiresAt >= locks[i].expiresAt
     ]_vars

----------------------------------------------------------------------------
(* Properties of the two key spaces (checked under SpecKeys). *)

\* an active lease of the request's user and chapter under contentId c
ActiveUnder(p, c) ==
  \E i \in 1..Len(locks) :
    MatchesTriple(locks[i], p.userId, c, p.chapterId) /\ p.t < locks[i].expiresAt

\* C17: a grant of the manual-unlock or timer flow writes its lease under
\* parseInt(contentId), a number, and check-unlock answers on the leases under
\* that number; the gate answers on the leases under the string of its path
\* alone, so it is opened by no lease of those two flows: a lease under the
\* string is written by ad-completion only.
KeySpacesApart ==
  [][\A p \in Running :
       /\ (p.op \in GrantOps /\ (UpsertMatch(p) \/ UpsertInsert(p)) /\ locks' # locks)
            => \E i \in 1..Len(locks') :
                 /\ locks'[i] = LockDoc(p.userId, p.key, p.chapterId, p.unlockedAt, p.expiresAt)
                 /\ p.op \in {"unlock", "timercb"}
                      => locks'[i].contentId = parseInt(p.contentId)
                           /\ locks'[i].contentId.ty # "str"
                 /\ p.op = "ads" => locks'[i].contentId = p.contentId
       /\ (p.op = "check" /\ p.pc = "find" /\ CheckFind(p))
            => \E q \in Stepped :
                 q.pc = "done" /\ (Unlocked(q) <=> ActiveUnder(p, parseInt(p.contentId)))
       /\ (p.op = "gate" /\ p.pc = "findlock" /\ GateFindLock(p))
            => \E q \in Stepped :
                 /\ q.pc = "findchapter" <=> ActiveUnder(p, p.contentId)
                 /\ q.status = 402 <=> ~ActiveUnder(p, p.contentId)
     ]_vars

\* at one instant the check has answered unlocked and the gate has denied,
\* the table holding a lease under the number 42 and none under "42"
CheckHonoursGateDenies ==
  /\ \E i \in 1..Len(locks) : locks[i].contentId = Num42 /\ now < locks[i].expiresAt
  /\ \A i \in 1..Len(locks) : locks[i].contentId = Num42
  /\ \E p \in Running : p.op = "check" /\ p.pc = "done" /\ Unlocked(p) /\ p.t = now
  /\ \E p \in Running : p.op = "gate" /\ p.pc = "done" /\ p.status = 402 /\ p.t = now

----------------------------------------------------------------------------
(* Properties of delayed grants beside RevokeAll (checked under SpecRevoke). *)

\* a timer due at d is pending
PendingAt(d) == \E tm \in BagToSet(timers) : tm.due = d

\* the callback of a timer due at d is running
CallbackOf(d) == \E p \in Running : p.op = "timercb" /\ p.t >= d

\* the dues that the clock's instants reach
DuesReached == {t + TimerDelay : t \in RevokeTimes} \cap RevokeTimes

\* no step but the timer's own firing takes a timer away, and it fires once:
\* one callback for the timer's triple, not before the timer is due;
\* RevokeAll leaves the timers as they are; a callback's write leaves an
\* active lease for its triple
TimerKept ==
  [][/\ \A tm \in BagToSet(timers) :
          CopiesIn(tm, timers') < CopiesIn(tm, timers)
            => /\ timers' = timers (-) SetToBag({tm})
               /\ now >= tm.due
               /\ Cardinality(Stepped) = 1
               /\ \A q \in Stepped :
                    /\ q.op = "timercb" /\ q.pc = "upsert"
                    /\ q.userId = tm.userId /\ q.contentId = tm.contentId
                    /\ q.chapterId = tm.chapterId
                    /\ CopiesIn(q, procs') = CopiesIn(q, procs) + 1
     /\ (\A q \in Stepped : q.op # "timercb")
          => \A tm \in BagToSet(timers) : CopiesIn(tm, timers') >= CopiesIn(tm, timers)
     /\ \A p \in Running :
          /\ (p.op = "revoke" /\ RevokeDelete(p)) => timers' = timers
          /\ (p.op = "timercb" /\ (UpsertMatch(p) \/ UpsertInsert(p)) /\ locks' # locks)
               => \E i \in 1..Len(locks') :
                    /\ MatchesTriple(locks'[i], p.userId, p.key, p.chapterId)
                    /\ now' < locks'[i].expiresAt
     ]_vars

\* C18: a scheduled delayed grant is not withdrawn by anything, RevokeAll
\* included; with the process alive it fires, once and after its delay, and
\* its callback's write leaves an active lease for its triple.
DelayedGrantFires ==
  /\ TimerKept
  /\ \A d \in DuesReached : PendingAt(d) ~> (~PendingAt(d) /\ ~CallbackOf(d))

\* the timer was set at 0; a RevokeAll has removed the lease there was; the
\* timer has fired at 40000 and its lease is the one in the table, reported
\* active by a check, with no grant request after the RevokeAll
ActiveAgainAfterRevoke ==
  /\ now = 40000
  /\ \E q \in Running : q.op = "revoke" /\ q.pc = "done" /\ q.count = 1
  /\ \E q \in Running : q.op = "check" /\ q.pc = "done" /\ q.t = 40000 /\ Unlocked(q)
  /\ Len(locks) = 1 /\ locks[1].unlockedAt = 40000 /\ locks[1].expiresAt = 640000
  /\ timers = EmptyBag
  /\ ~CallbackOf(0)

----------------------------------------------------------------------------
(* Properties of the stored timestamps (checked under SpecClock). *)

\* C19: every stored lease has expiresAt = unlockedAt + 600000 ms exactly,
\* also when the clock moves on while the grant executes.
LeaseSpansDuration ==
  \A i \in 1..Len(locks) : locks[i].expiresAt = locks[i].unlockedAt + LeaseDuration

----------------------------------------------------------------------------
(* Properties of reads beside removal (checked under SpecReads). *)

\* what the three reads answer on the present table to queries dated q:
\* IsActive, ListActiveForUser and the gate's decision
ReadsAt(q) ==
  <<FindActiveLock("guest", Num42, "3", q) # <<>>,
    FindUserLocks("guest", q),
    FindActiveLock("guest", Str42, "3", q) # <<>>>>

\* the leases of a table that have not expired at q
LiveAt(seq, q) == LET Keep(d) == d.expiresAt > q IN SelectSeq(seq, Keep)

\* C20: a sweeper run, or a TTL deletion of the store, changes the answer of no
\* read dated at or after its cut-off, whichever of IsActive, ListActiveForUser
\* and the gate's lookup it is; a TTL deletion that takes every lease with
\* expiresAt <= now, the boundary included, changes no read made now; and a
\* check answers as it would on the table without the leases whose expiresAt
\* is at or before its date.
RemovalChangesNoRead ==
  [][/\ \A date \in sweeps :
          SweepDelete(date)
            => \A q \in ReadTimes : q >= date => ReadsAt(q)' = ReadsAt(q)
     /\ TtlDelete
          => \A q \in ReadTimes : q >= now => ReadsAt(q)' = ReadsAt(q)
     /\ \A p \in Running :
          LET live == LiveAt(locks, p.t)
              mine == {i \in 1..Len(live) :
                         MatchesTriple(live[i], p.userId, p.key, p.chapterId)}
          IN  (p.op = "check" /\ p.pc = "find" /\ CheckFind(p))
                => \E r \in Stepped : r.pc = "done" /\ (Unlocked(r) <=> mine # {})
     ]_vars

\* a check made at 600000 has answered false on the lease expiring at 600000,
\* a sweeper run has since removed both expired leases, and a check made at
\* 600001 has answered false again
BoundaryThenRemoved ==
  /\ locks = <<>>
  /\ now = 600001
  /\ \E p \in Running :
       p.op = "check" /\ p.pc = "done" /\ p.t = 600000 /\ p.status = 200 /\ ~Unlocked(p)
  /\ \E p \in Running :
       p.op = "check" /\ p.pc = "done" /\ p.t = 600001 /\ p.status = 200 /\ ~Unlocked(p)
  /\ swept = 2

----------------------------------------------------------------------------
(* Properties of the last-seen side effect (checked under SpecSeen). *)

\* a grant of user u that has written its lease and not yet finished
GrantFinishing(u) ==
  \E p \in Running : p.op \in GrantOps /\ p.userId = u /\ p.pc = "lastseen"

\* C21: every Grant, of whichever flow, also sets last_seen of the user record
\* of its userId when there is one, and creates no user record: once the
\* grants of a user have finished, last_seen of the user's record is not
\* before the grant time of any lease of the user.
GrantTouchesLastSeen ==
  /\ DOMAIN users = {"guest_1"}
  /\ \A i \in 1..Len(locks) :
       (locks[i].userId \in DOMAIN users /\ ~GrantFinishing(locks[i].userId))
         => users[locks[i].userId] >= locks[i].unlockedAt

----------------------------------------------------------------------------
(* Properties of the lease table's frame (checked under SpecFrame). *)

\* the documents of a table that are not of the triple of grant p
OtherLeases(seq, p) ==
  LET Keep(d) == ~(d.userId = p.userId /\ d.contentId = p.key /\ d.chapterId = p.chapterId)
  IN  SelectSeq(seq, Keep)

\* the documents of a table that a step has taken away
Removed == {i \in 1..Len(locks) : \A j \in 1..Len(locks') : locks'[j] # locks[i]}

\* C22: the steps of IsActive, ListActiveForUser, the gate and the unchecked
\* route leave the lease table as it is; the write of a Grant leaves the lease
\* of every other triple as it is; and a step that takes a lease away with
\* the lease of its triple not rewritten is RevokeAll's delete, or takes only
\* leases that have expired.
LeaseTableFrame ==
  [][/\ \A p \in Running :
          /\ (p.op \in {"check", "list", "gate", "direct"}
                /\ (CheckFind(p) \/ ListFind(p) \/ GateFindLock(p) \/ ChapterFind(p)))
               => locks' = locks
          /\ (p.op \in GrantOps /\ (UpsertMatch(p) \/ UpsertInsert(p)))
               => /\ OtherLeases(locks', p) = OtherLeases(locks, p)
                  /\ Len(locks') >= Len(locks)
     /\ (\E q \in Stepped : q.pc \in {"find", "findall", "findlock", "findchapter", "deleteall"})
          => locks' = locks
     /\ Len(locks') < Len(locks)
          => \/ \E p \in Running : p.op = "revoke" /\ RevokeDelete(p)
             \/ \A i \in Removed : locks[i].expiresAt <= now
     ]_vars

\* a grant for u1 at 600001 has been written beside the lease of guest_1 of
\* time 0, expired and still as it was, and a check for guest_1 has been
\* answered
GrantBesideOtherLease ==
  /\ Len(locks) = 2
  /\ locks[1] = LockDoc("guest_1", Num42, "3", 0, 600000)
  /\ locks[2] = LockDoc("u1", Num42, "3", 600001, 1200001)
  /\ \E p \in Running : p.op = "check" /\ p.pc = "done" /\ p.t = 600001 /\ ~Unlocked(p)

----------------------------------------------------------------------------
(* Properties of a failing sweeper (checked under SpecSweep). *)

\* after the failed run of cut-off f, a tick of the interval is still to come
\* among the instants the clock takes
TickAheadOf(f) ==
  /\ f \in sweepErrors
  /\ srv.phase # "exited"
  /\ \E t \in SweepTimes : t > f /\ t >= sweepDue

\* C23: a sweeper run whose deleteMany fails changes neither the server's
\* state, the interval's next due time, the lease table nor any request in
\* flight; the next tick sends a deleteMany with a later cut-off; and a later
\* run that succeeds removes every lease that had expired at the failed run.
FailedSweepContained ==
  /\ [][/\ \A d \in sweeps :
             SweepError(d)
               => /\ srv' = srv /\ db' = db /\ sweepDue' = sweepDue
                  /\ procs' = procs /\ timers' = timers
                  /\ locks' = locks /\ users' = users
        /\ \A d \in sweeps :
             SweepDelete(d)
               => \A f \in sweepErrors :
                    f < d => \A i \in 1..Len(locks) :
                               locks[i].expiresAt < f
                                 => \A j \in 1..Len(locks') : locks'[j] # locks[i]
        ]_vars
  /\ \A f \in SweepTimes :
       TickAheadOf(f) ~> (\E d \in sweeps : d > f)

\* the run of 600001 failed with a check in flight, and the run of 700000 has
\* removed the lease granted at 0; the check has its answer
SweptAfterFailedRun ==
  /\ sweepErrors = {600001}
  /\ now = 700000
  /\ swept = 1
  /\ locks = <<>>
  /\ sweepDue = 760000
  /\ \E p \in Running : p.op = "check" /\ p.pc = "done" /\ p.t = 600001

----------------------------------------------------------------------------
(* Properties of start-up (checked under SpecServer). *)

\* C24: the server listens, and has requests, leases or timers, only with the
\* store handle set by a connection attempt that succeeded; every attempt is
\* made with fewer than 5 failed before it; the process exits only after 5
\* failed attempts, with the handle unset and no request ever accepted; and
\* a handle that is set stays set.
StartupProtocol ==
  /\ [](/\ srv.phase = "listening" => db = "set"
        /\ (procs # EmptyBag \/ timers # EmptyBag \/ locks # <<>>)
             => srv.phase = "listening"
        /\ srv.attempts <= maxAttempts
        /\ srv.phase = "exited"
             => srv.attempts = maxAttempts /\ db = "null")
  /\ [][/\ srv' # srv => srv.phase = "connecting" /\ srv.attempts < maxAttempts
        /\ db' # db => db = "null" /\ db' = "set" /\ srv'.phase = "listening"
        /\ Stepped # {} => srv.phase = "listening" /\ db = "set"
       ]_vars

\* the fifth attempt has failed: the process has exited, having accepted nothing
ExitedAfterFiveFailures ==
  /\ srv = [phase |-> "exited", attempts |-> maxAttempts]
  /\ db = "null"
  /\ procs = EmptyBag /\ timers = EmptyBag /\ locks = <<>>
====
